---- MODULE Spec2Model ----
(***************************************************************************)
(* D3D12ResourceRecord (renderdoc/driver/d3d12/d3d12_manager.h): the       *)
(* record graph and Insert (the chunk resolver), the context-id table, the *)
(* shadow storage of a record and its destruction.                         *)
(***************************************************************************)
EXTENDS Integers, Sequences, FiniteSets, TLC

\* ------------------------------------------------------------- bounds
NumRecords == 3      \* records that may be constructed
MaxChunkId == 2      \* chunk ids are 1..MaxChunkId
MaxChunks == 2       \* chunk entries held by all records together
MaxEdges == 2        \* parent edges added before the first Insert
MaxSubs == 1         \* subresource entries in the graph
MaxLateOps == 1      \* edges, subresources and chunks added after the first Insert
MaxReleases == 2     \* FreeContextID calls in one run
MaxOverflow == 2     \* GetContextID calls answered with 0 and not yet released
MaxLive == 1         \* contexts live at once where the whole record is exercised
MaxSize == 2         \* shadow sizes are 1..MaxSize
MaxPairs == 2        \* shadow buffer pairs ever allocated
MaxPtr == 1          \* data pointers are 0 (NULL) .. MaxPtr
MaxCorrupt == 1      \* buffers whose guard differs from markerValue at one time
NumThreads == 2      \* threads that call GetContextID without a lock
MaxCalls == 3        \* ids given out and calls under way at one time, with threads

\* ---------------------------------------------------- program constants
NumContexts == 32    \* bool contexts[32], byte *ShadowPtr[32][2]
MarkerLen == 32      \* sizeof(markerValue)

Rec == 1..NumRecords
ChunkId == 1..MaxChunkId
Ctx == 0..(NumContexts - 1)
This == 1            \* the record whose tables are modelled
Thread == 1..NumThreads

\* A finite call stack: the number of Insert activations one top-level call
\* may make before the walk is cut off (never reached by Insert below).
CallLimit == 4 * NumRecords + 2

VARIABLES
  live,          \* the records constructed so far
  Parents,       \* ResourceRecord::Parents, per record (a std::set of records)
  SubResources,  \* SubResources[0..NumSubResources-1], per record
  m_Chunks,      \* ResourceRecord::m_Chunks, per record: the keys of the map
  DataWritten,   \* ResourceRecord::DataWritten, per record
  DataPtr,       \* ResourceRecord::DataPtr, per record (0 is NULL)
  recordlist,    \* the map<int32_t, Chunk *> handed to Insert, in iteration order
  contexts,      \* bool contexts[32] of record This
  ShadowPtr,     \* byte *ShadowPtr[32][2], per record (0 is NULL, else a heap index)
  ShadowSize,    \* size_t ShadowSize[32], per record
  heap,          \* the buffers Serialiser::AllocAlignedBuffer has handed out
  nullFrees,     \* history: Serialiser::FreeAlignedBuffer calls on NULL
  held,          \* history: per id, the callers that got it and have not released it
  releases,      \* history: the FreeContextID calls so far
  merges,        \* history: how often Insert merged each record's own chunks
  roots,         \* history: the records Insert was called on from outside
  mutated,       \* history: edges, subresources and chunks added after the first Insert
  scan,          \* per thread: where its GetContextID call stands
  raced,         \* history: two GetContextID calls overlapped
  last           \* history: the last call into a record, its argument and what it did
                 \* (NoOp after a step that only builds the graph)

graphVars == <<live, Parents, SubResources, m_Chunks>>
resolveVars == <<DataWritten, recordlist, merges, roots>>
slotVars == <<contexts, held, releases>>
shadowVars == <<ShadowPtr, ShadowSize, heap, nullFrees>>
raceVars == <<scan, raced>>
vars == <<live, Parents, SubResources, m_Chunks, DataWritten, DataPtr, recordlist,
          contexts, ShadowPtr, ShadowSize, heap, nullFrees,
          merges, roots, mutated, held, releases, scan, raced, last>>

\* ------------------------------------------------------------ helpers
Min(S) == CHOOSE x \in S : \A y \in S : x <= y

NoOp == [op |-> "none", r |-> 0, arg |-> 0, ret |-> 0, dw0 |-> <<>>,
         calls |-> 0, depth |-> 0, overflow |-> FALSE, lateParent |-> FALSE,
         again |-> FALSE, closed0 |-> TRUE, fresh |-> FALSE, subs |-> 0]

\* As a std::multimap would insert: a key that is present is entered again.
MapInsertMulti(list, k) ==
  SelectSeq(list, LAMBDA x : x <= k) \o <<k>> \o SelectSeq(list, LAMBDA x : x > k)

\* As a list in order of arrival would insert: a new key goes to the end.
MapInsertAppend(list, k) ==
  IF \E i \in 1..Len(list) : list[i] = k THEN list ELSE Append(list, k)

\* std::map<int32_t, Chunk *>::insert(value): the key order is kept, and a key
\* that is already present is left alone.
MapInsert(list, k) ==
  IF \E i \in 1..Len(list) : list[i] = k
  THEN list
  ELSE SelectSeq(list, LAMBDA x : x < k) \o <<k>> \o SelectSeq(list, LAMBDA x : x > k)

\* recordlist.insert(m_Chunks.begin(), m_Chunks.end()): one insert per element,
\* in the source map's iteration order.
RECURSIVE MapInsertRange(_, _)
MapInsertRange(list, keys) ==
  IF keys = {} THEN list
  ELSE LET k == Min(keys)
       IN MapInsertRange(MapInsert(list, k), keys \ {k})

\* -------------------------------------------------------------- Insert
RECURSIVE InsertRec(_, _, _)
RECURSIVE InsertParents(_, _)
RECURSIVE InsertSubs(_, _, _)

\* The activation record after entering r: the latch set, the call counted.
Enter(r, via, st) ==
  [st EXCEPT !.dw[r] = TRUE,
             !.calls = @ + 1,
             !.cur = @ + 1,
             !.depth = IF st.cur + 1 > @ THEN st.cur + 1 ELSE @,
             !.subs = IF via = "sub" THEN @ + 1 ELSE @,
             !.lateParent = @ \/ (via = "parent" /\ st.dw[r])]

Merge(r, st) ==
  [st EXCEPT !.rl = MapInsertRange(@, m_Chunks[r]), !.mg[r] = @ + 1]

Leave(st) == [st EXCEPT !.cur = @ - 1]

\* Insert without the loop over SubResources.
InsertRecNoSubs(r, via, st) ==
  IF st.calls >= CallLimit THEN [st EXCEPT !.overflow = TRUE]
  ELSE LET s2 == InsertParents(Parents[r], Enter(r, via, st))
       IN Leave(IF ~st.dw[r] THEN Merge(r, s2) ELSE s2)

\* Insert merging the record's chunks whatever the latch said.
InsertRecRemerge(r, via, st) ==
  IF st.calls >= CallLimit THEN [st EXCEPT !.overflow = TRUE]
  ELSE LET s2 == Merge(r, InsertParents(Parents[r], Enter(r, via, st)))
       IN Leave(IF ~st.dw[r] THEN InsertSubs(SubResources[r], 1, s2) ELSE s2)

\* Insert setting DataWritten after the loop over Parents, not before it.
InsertRecLatchLate(r, via, st) ==
  IF st.calls >= CallLimit THEN [st EXCEPT !.overflow = TRUE]
  ELSE LET e == Enter(r, via, st)
           s2 == InsertParents(Parents[r], [e EXCEPT !.dw[r] = st.dw[r]])
           s3 == [s2 EXCEPT !.dw[r] = TRUE]
       IN Leave(IF ~st.dw[r] THEN InsertSubs(SubResources[r], 1, Merge(r, s3)) ELSE s3)

\* Insert with the loop over SubResources outside the test of dataWritten.
InsertRecRewalk(r, via, st) ==
  IF st.calls >= CallLimit THEN [st EXCEPT !.overflow = TRUE]
  ELSE LET s2 == InsertParents(Parents[r], Enter(r, via, st))
       IN Leave(InsertSubs(SubResources[r], 1, IF ~st.dw[r] THEN Merge(r, s2) ELSE s2))

\* The loop over Parents leaving after the first parent.
InsertParentsFirstOnly(ps, st) ==
  IF ps = {} THEN st
  ELSE LET p == Min(ps)
       IN IF ~st.dw[p] THEN InsertRec(p, "parent", st) ELSE st

\* The loop over Parents without the test of the parent's DataWritten.
InsertParentsAll(ps, st) ==
  IF ps = {} THEN st
  ELSE LET p == Min(ps)
       IN InsertParents(ps \ {p}, InsertRec(p, "parent", st))

\* for(auto it = Parents.begin(); it != Parents.end(); ++it)
\*   if(!(*it)->DataWritten) (*it)->Insert(recordlist);
InsertParents(ps, st) ==
  IF ps = {} THEN st
  ELSE LET p == Min(ps)
           s1 == IF ~st.dw[p] THEN InsertRec(p, "parent", st) ELSE st
       IN InsertParents(ps \ {p}, s1)

\* for(int i = 0; i < NumSubResources; i++) SubResources[i]->Insert(recordlist);
InsertSubs(subs, i, st) ==
  IF i > Len(subs) THEN st
  ELSE InsertSubs(subs, i + 1, InsertRec(subs[i], "sub", st))

\* One activation of Insert on record r, entered from outside ("root"), from
\* the parent loop ("parent") or from the subresource loop ("sub").
InsertRec(r, via, st) ==
  IF st.calls >= CallLimit THEN [st EXCEPT !.overflow = TRUE]
  ELSE
    LET dataWritten == st.dw[r]                          \* bool dataWritten = DataWritten;
        s1 == Enter(r, via, st)                          \* DataWritten = true;
        s2 == InsertParents(Parents[r], s1)
        s3 == IF ~dataWritten
              THEN InsertSubs(SubResources[r], 1, Merge(r, s2))
              ELSE s2
    IN Leave(s3)

\* Every committed record has only committed parents and subresources.
Closed(dw) ==
  \A x \in live : dw[x] =>
     /\ \A p \in Parents[x] : dw[p]
     /\ \A i \in 1..Len(SubResources[x]) : dw[SubResources[x][i]]

Insert(r) ==
  /\ r \in live
  /\ LET st == InsertRec(r, "root",
                 [dw |-> DataWritten, rl |-> recordlist, mg |-> merges,
                  calls |-> 0, cur |-> 0, depth |-> 0, subs |-> 0,
                  overflow |-> FALSE, lateParent |-> FALSE])
     IN /\ DataWritten' = st.dw
        /\ recordlist' = st.rl
        /\ merges' = st.mg
        /\ last' = [NoOp EXCEPT !.op = "Insert", !.r = r, !.dw0 = DataWritten,
                      !.calls = st.calls, !.depth = st.depth, !.subs = st.subs,
                      !.overflow = st.overflow, !.lateParent = st.lateParent,
                      !.again = (last.op = "Insert" /\ last.r = r),
                      !.closed0 = Closed(DataWritten)]
  /\ roots' = roots \cup {r}
  /\ UNCHANGED <<raceVars, graphVars, mutated, DataPtr, slotVars, shadowVars>>

\* --------------------------------------------- building the record graph
NumEdges == Cardinality({e \in Rec \X Rec : e[2] \in Parents[e[1]]})
NumSubEntries == Cardinality({e \in Rec \X Rec :
                   \E i \in 1..Len(SubResources[e[1]]) : SubResources[e[1]][i] = e[2]})
NumChunkEntries == Cardinality({e \in Rec \X ChunkId : e[2] \in m_Chunks[e[1]]})

Owner(s) == {x \in Rec : \E i \in 1..Len(SubResources[x]) : SubResources[x][i] = s}

RECURSIVE Owns(_, _, _)
\* x owns y through at most n levels of SubResources
Owns(x, y, n) ==
  /\ n > 0
  /\ \E i \in 1..Len(SubResources[x]) :
        SubResources[x][i] = y \/ Owns(SubResources[x][i], y, n - 1)

\* An addition to the graph counts as late once Insert has run.
Late ==
  /\ roots # {} => mutated < MaxLateOps
  /\ mutated' = IF roots # {} THEN mutated + 1 ELSE mutated

\* D3D12ResourceRecord(ResourceId id): no subresources; the base constructor
\* leaves the record without parents or chunks and with DataWritten false.
Construct ==
  /\ live # Rec
  /\ live' = live \cup {Min(Rec \ live)}
  /\ last' = NoOp
  /\ UNCHANGED <<raceVars, Parents, SubResources, m_Chunks, resolveVars, mutated,
                 DataPtr, slotVars, shadowVars>>

\* ResourceRecord::AddParent(p): p joins the set Parents of r.
AddParent(r, p) ==
  /\ r \in live /\ p \in live /\ r # p
  /\ p \notin Parents[r]
  /\ roots = {} => NumEdges < MaxEdges
  /\ Parents' = [Parents EXCEPT ![r] = @ \cup {p}]
  /\ Late
  /\ last' = NoOp
  /\ UNCHANGED <<raceVars, live, SubResources, m_Chunks, resolveVars, DataPtr, slotVars, shadowVars>>

\* The owner of the record fills SubResources / NumSubResources while it sets
\* the record up, before the record is first resolved: s, a record constructed
\* after r, becomes the next subresource of r. A subresource has one owner and
\* owns no ancestor.
AddSubResource(r, s) ==
  /\ r \in live /\ s \in live /\ r < s
  /\ ~DataWritten[r]
  /\ Owner(s) = {}
  /\ ~Owns(s, r, NumRecords)
  /\ NumSubEntries < MaxSubs
  /\ SubResources' = [SubResources EXCEPT ![r] = Append(@, s)]
  /\ Late
  /\ last' = NoOp
  /\ UNCHANGED <<raceVars, live, Parents, m_Chunks, resolveVars, DataPtr, slotVars, shadowVars>>

\* ResourceRecord::AddChunk(chunk, ID): m_Chunks[ID] = chunk.
AddChunk(r, c) ==
  /\ r \in live
  /\ c \notin m_Chunks[r]
  /\ NumChunkEntries < MaxChunks
  /\ m_Chunks' = [m_Chunks EXCEPT ![r] = @ \cup {c}]
  /\ Late
  /\ last' = NoOp
  /\ UNCHANGED <<raceVars, live, Parents, SubResources, resolveVars, DataPtr, slotVars, shadowVars>>


\* ----------------------------------------------------------- SetDataPtr
RECURSIVE SetDataPtrRec(_, _, _)
RECURSIVE SetDataPtrSubs(_, _, _, _)

\* for(int i = 0; i < NumSubResources; i++) SubResources[i]->SetDataPtr(ptr);
SetDataPtrSubs(subs, i, ptr, dp) ==
  IF i > Len(subs) THEN dp
  ELSE SetDataPtrSubs(subs, i + 1, ptr, SetDataPtrRec(subs[i], ptr, dp))

SetDataPtrRec(r, ptr, dp) ==
  SetDataPtrSubs(SubResources[r], 1, ptr, [dp EXCEPT ![r] = ptr])

SetDataPtr(r, ptr) ==
  /\ r \in live
  /\ DataPtr' = SetDataPtrRec(r, ptr, DataPtr)
  /\ last' = [NoOp EXCEPT !.op = "SetDataPtr", !.r = r, !.arg = ptr]
  /\ UNCHANGED <<raceVars, graphVars, resolveVars, mutated, slotVars, shadowVars>>

\* ------------------------------------------------- the context-id table
RECURSIVE ScanContexts(_, _)
RECURSIVE ScanContextsShort(_, _)
RECURSIVE ScanContextsDown(_, _)

\* The scan stopping one slot early: for(int i = 1; i < 31; i++)
ScanContextsShort(ctxs, i) ==
  IF i >= NumContexts - 1 THEN 0
  ELSE IF ctxs[i] = FALSE THEN i
  ELSE ScanContextsShort(ctxs, i + 1)

\* The scan taking the last free slot instead of the first.
ScanContextsDown(ctxs, i) ==
  IF i >= NumContexts THEN 0
  ELSE LET rest == ScanContextsDown(ctxs, i + 1)
       IN IF rest # 0 THEN rest ELSE IF ctxs[i] = FALSE THEN i ELSE 0

\* for(int i = 1; i < 32; i++) if(contexts[i] == false) ... return i;  return 0;
ScanContexts(ctxs, i) ==
  IF i >= NumContexts THEN 0
  ELSE IF ctxs[i] = FALSE THEN i
  ELSE ScanContexts(ctxs, i + 1)

\* The table with the flag of the returned value set, the value 0 included.
MarkContextAlways(ctxs, id) == [ctxs EXCEPT ![id] = TRUE]

\* The table with no flag set.
MarkContextNone(ctxs, id) == ctxs

\* The table after GetContextID found slot id (0: none found, nothing marked).
MarkContext(ctxs, id) ==
  IF id # 0 THEN [ctxs EXCEPT ![id] = TRUE] ELSE ctxs

NumHeld == Cardinality({i \in Ctx : held[i] > 0})

GetContextID ==
  LET id == ScanContexts(contexts, 1)
  IN /\ id = 0 => held[0] < MaxOverflow
     /\ contexts' = MarkContext(contexts, id)
     /\ held' = [held EXCEPT ![id] = @ + 1]
     /\ last' = [NoOp EXCEPT !.op = "GetContextID", !.ret = id,
                     !.arg = IF last.op = "FreeContextID" THEN last.arg ELSE -1]
     /\ UNCHANGED <<raceVars, graphVars, resolveVars, mutated, DataPtr, releases, shadowVars>>

\* void FreeContextID(int ctx) { contexts[ctx] = false; }
ClearContext(ctxs, ctx) == [ctxs EXCEPT ![ctx] = FALSE]

\* A caller hands back the id it was given.
FreeContextID(ctx) ==
  /\ held[ctx] > 0
  /\ releases < MaxReleases
  /\ contexts' = ClearContext(contexts, ctx)
  /\ held' = [held EXCEPT ![ctx] = @ - 1]
  /\ releases' = releases + 1
  /\ last' = [NoOp EXCEPT !.op = "FreeContextID", !.arg = ctx]
  /\ UNCHANGED <<raceVars, graphVars, resolveVars, mutated, DataPtr, shadowVars>>

\* ------------------------------- GetContextID, one memory access a step
\* contexts[] is read and written without a lock. A call of thread t stands
\* before the test of contexts[i] (pc "test") or, having read false there,
\* before the assignment contexts[i] = true (pc "set").
Idle == [pc |-> "idle", i |-> 0]
Others(t) == {u \in Thread \ {t} : scan[u].pc # "idle"}
InFlight == Cardinality({t \in Thread : scan[t].pc # "idle"})

\* int GetContextID() is entered: i = 1
CallGetContextID(t) ==
  /\ scan[t].pc = "idle"
  /\ InFlight + held[0] + Cardinality({i \in Ctx : held[i] > 0}) < MaxCalls
  /\ scan' = [scan EXCEPT ![t] = [pc |-> "test", i |-> 1]]
  /\ raced' = (raced \/ Others(t) # {})
  /\ last' = NoOp
  /\ UNCHANGED <<graphVars, resolveVars, mutated, DataPtr, slotVars, shadowVars>>

\* i < 32 and if(contexts[i] == false): the flag is read; past the last slot
\* the call returns 0.
TestContext(t) ==
  /\ scan[t].pc = "test"
  /\ IF scan[t].i >= NumContexts
     THEN /\ scan' = [scan EXCEPT ![t] = Idle]
          /\ held' = [held EXCEPT ![0] = @ + 1]
          /\ last' = [NoOp EXCEPT !.op = "GetContextID", !.r = t, !.ret = 0]
     ELSE /\ scan' = [scan EXCEPT ![t] =
                       IF contexts[scan[t].i] = FALSE
                       THEN [pc |-> "set", i |-> scan[t].i]
                       ELSE [pc |-> "test", i |-> scan[t].i + 1]]
          /\ last' = NoOp
          /\ UNCHANGED held
  /\ raced' = (raced \/ Others(t) # {})
  /\ UNCHANGED <<graphVars, resolveVars, mutated, DataPtr, contexts, releases, shadowVars>>

\* contexts[i] = true; return i;
SetContext(t) ==
  /\ scan[t].pc = "set"
  /\ contexts' = MarkContext(contexts, scan[t].i)
  /\ held' = [held EXCEPT ![scan[t].i] = @ + 1]
  /\ scan' = [scan EXCEPT ![t] = Idle]
  /\ raced' = (raced \/ Others(t) # {})
  /\ last' = [NoOp EXCEPT !.op = "GetContextID", !.r = t, !.ret = scan[t].i]
  /\ UNCHANGED <<graphVars, resolveVars, mutated, DataPtr, releases, shadowVars>>

\* ------------------------------------------------------- shadow storage
\* static byte markerValue[32]
markerValue == [i \in 1..MarkerLen |-> i]

\* Serialiser::AllocAlignedBuffer(size + sizeof(markerValue)) followed by the
\* memcpy of markerValue to offset size: a buffer of len bytes whose last
\* MarkerLen bytes are tracked. (History: owner, the record whose table got the
\* pointer; frees, the times it went to Serialiser::FreeAlignedBuffer.)
NewBuffer(size, r) ==
  [len |-> size + MarkerLen, guard |-> markerValue, frees |-> 0, owner |-> r]

\* the MarkerLen bytes of buffer p that start at offset off
BytesAt(hp, p, off) ==
  IF off = hp[p].len - MarkerLen THEN hp[p].guard ELSE [i \in 1..MarkerLen |-> 0]

\* The test allocating anew when the size asked for is not the recorded one.
NeedsAllocOrResize(sp, ss, ctx, size) == sp[ctx][1] = 0 \/ ss[ctx] # size

\* The test allocating anew when the size asked for exceeds the recorded one.
NeedsAllocIfLarger(sp, ss, ctx, size) == sp[ctx][1] = 0 \/ ss[ctx] < size

\* if(ShadowPtr[ctx][0] == NULL)
\* ([ctx][0] and [ctx][1] are the fields 1 and 2 of the slot's pair)
NeedsAlloc(sp, ss, ctx, size) == sp[ctx][1] = 0

\* ShadowPtr[ctx][0] = AllocAlignedBuffer(..); ShadowPtr[ctx][1] = AllocAlignedBuffer(..);
\* with n buffers handed out before
AllocatedPair(n) == <<n + 1, n + 2>>

AllocShadowStorage(r, ctx, size) ==
  /\ r \in live
  /\ IF NeedsAlloc(ShadowPtr[r], ShadowSize[r], ctx, size)
     THEN /\ Len(heap) + 2 <= 2 * MaxPairs
          /\ heap' = heap \o <<NewBuffer(size, r), NewBuffer(size, r)>>
          /\ ShadowPtr' = [ShadowPtr EXCEPT ![r][ctx] = AllocatedPair(Len(heap))]
          /\ ShadowSize' = [ShadowSize EXCEPT ![r][ctx] = size]
     ELSE UNCHANGED <<ShadowPtr, ShadowSize, heap>>
  /\ last' = [NoOp EXCEPT !.op = "AllocShadowStorage", !.r = r, !.arg = ctx, !.ret = size,
                          !.fresh = NeedsAlloc(ShadowPtr[r], ShadowSize[r], ctx, size),
                          !.again = (last.op = "GetContextID" /\ last.ret = ctx
                                       /\ last.arg = ctx)]
  /\ UNCHANGED <<raceVars, graphVars, resolveVars, mutated, DataPtr, slotVars, nullFrees>>

\* The check looking at the first buffer only.
VerifyResultFirstOnly(sp, ss, hp, ctx) ==
  ~(sp[ctx][1] # 0 /\ BytesAt(hp, sp[ctx][1], ss[ctx]) # markerValue)

\* VerifyShadowStorage(ctx) on the tables sp, ss of a record
VerifyResult(sp, ss, hp, ctx) ==
  IF sp[ctx][1] # 0 /\ BytesAt(hp, sp[ctx][1], ss[ctx]) # markerValue
  THEN FALSE
  ELSE IF sp[ctx][2] # 0 /\ BytesAt(hp, sp[ctx][2], ss[ctx]) # markerValue
  THEN FALSE
  ELSE TRUE

VerifyShadowStorage(r, ctx) ==
  /\ r \in live
  /\ last' = [NoOp EXCEPT !.op = "VerifyShadowStorage", !.r = r, !.arg = ctx,
                !.ret = IF VerifyResult(ShadowPtr[r], ShadowSize[r], heap, ctx)
                        THEN 1 ELSE 0]
  /\ UNCHANGED <<raceVars, graphVars, resolveVars, mutated, DataPtr, slotVars, shadowVars>>

\* byte *GetShadowPtr(int ctx, int p): the caller writes through the pointer
\* it is given; a write that runs past ShadowSize[ctx] bytes lands in the
\* guard. Byte i of the guard of the live buffer p becomes v.
WriteGuard(p, i, v) ==
  /\ p \in 1..Len(heap)
  /\ heap[p].frees = 0 /\ heap[p].owner \in live
  /\ heap[p].guard[i] # v
  /\ Cardinality({q \in 1..Len(heap) : heap[q].guard # markerValue}) < MaxCorrupt
       \/ heap[p].guard # markerValue
  /\ heap' = [heap EXCEPT ![p].guard[i] = v]
  /\ last' = [NoOp EXCEPT !.op = "WriteGuard", !.r = heap[p].owner, !.arg = p, !.ret = i]
  /\ UNCHANGED <<raceVars, graphVars, resolveVars, mutated, DataPtr, slotVars,
                 ShadowPtr, ShadowSize, nullFrees>>

\* FreeShadowStorage freeing nothing.
FreeCallsNone(S, p) == 0

\* How often the loops of FreeShadowStorage, run on each record of the set S,
\* hand pointer p to Serialiser::FreeAlignedBuffer: both pointers of slot i
\* go there when ShadowPtr[i][0] != NULL.
FreeCalls(S, p) ==
  Cardinality({e \in S \X Ctx \X {1, 2} :
                 ShadowPtr[e[1]][e[2]][1] # 0 /\ ShadowPtr[e[1]][e[2]][e[3]] = p})

\* The loop starting at slot 1, as the loop of GetContextID does.
NullSlotsFromOne(sp) == [i \in Ctx |-> IF i = 0 THEN sp[i] ELSE <<0, 0>>]

\* The loop leaving the freed pointers in the table.
NullSlotsNot(sp) == sp

\* ShadowPtr[i][0] = ShadowPtr[i][1] = NULL, for i = 0..31
NullSlots(sp) == [i \in Ctx |-> <<0, 0>>]

\* The heap after FreeShadowStorage has run on each record of the set S.
HeapAfterFree(hp, S) ==
  [p \in DOMAIN hp |-> [hp[p] EXCEPT !.frees = @ + FreeCalls(S, p)]]

\* for(int i = 0; i < 32; i++) { if(ShadowPtr[i][0] != NULL) { free [i][0], [i][1] }
\*                               ShadowPtr[i][0] = ShadowPtr[i][1] = NULL; }
\* Each round reads and writes slot i alone, so the rounds are taken together.
FreeShadowStorage(r) ==
  /\ r \in live
  /\ heap' = HeapAfterFree(heap, {r})
  /\ nullFrees' = nullFrees + FreeCalls({r}, 0)
  /\ ShadowPtr' = [ShadowPtr EXCEPT ![r] = NullSlots(@)]
  /\ last' = [NoOp EXCEPT !.op = "FreeShadowStorage", !.r = r,
                          !.ret = Cardinality({i \in Ctx : ShadowPtr[r][i][1] # 0}),
                          !.again = (last.op = "FreeShadowStorage" /\ last.r = r)]
  /\ UNCHANGED <<raceVars, graphVars, resolveVars, mutated, DataPtr, slotVars, ShadowSize>>

\* ----------------------------------------------------------- destruction
RECURSIVE Destroyed(_, _)
\* The records whose destructor runs when r is deleted: r, and through
\* SAFE_DELETE(SubResources[i]) every subresource, down n levels.
Destroyed(r, n) ==
  {r} \cup (IF n = 0 THEN {}
            ELSE UNION {Destroyed(SubResources[r][i], n - 1) :
                          i \in 1..Len(SubResources[r])})

\* ResourceRecord::DeleteChunks() on each record of the set S
DeleteChunks(ch, S) == [x \in Rec |-> IF x \in S THEN {} ELSE ch[x]]

\* ~D3D12ResourceRecord(): DeleteChunks and delete on every subresource, the
\* array released, then FreeShadowStorage. A record is deleted by its owner
\* when it is a subresource, and only when no record that stays refers to it.
Destroy(r) ==
  LET D == Destroyed(r, NumRecords)
  IN /\ r \in live /\ Owner(r) = {}
     /\ \A x \in live \ D : Parents[x] \cap D = {}
     /\ live' = live \ D
     /\ m_Chunks' = DeleteChunks(m_Chunks, D \ {r})
     /\ SubResources' = [x \in Rec |-> IF x \in D THEN <<>> ELSE SubResources[x]]
     /\ heap' = HeapAfterFree(heap, D)
     /\ nullFrees' = nullFrees + FreeCalls(D, 0)
     /\ ShadowPtr' = [x \in Rec |-> IF x \in D THEN NullSlots(ShadowPtr[x])
                                    ELSE ShadowPtr[x]]
     /\ last' = [NoOp EXCEPT !.op = "Destroy", !.r = r,
                             !.again = (last.op = "FreeShadowStorage" /\ last.r = r)]
     /\ UNCHANGED <<raceVars, Parents, resolveVars, mutated, DataPtr, slotVars, ShadowSize>>

\* ------------------------------------------------------- specifications
TablesInit ==
  /\ DataPtr = [r \in Rec |-> 0]
  /\ contexts = [i \in Ctx |-> FALSE]
  /\ ShadowPtr = [r \in Rec |-> [i \in Ctx |-> <<0, 0>>]]
  /\ ShadowSize = [r \in Rec |-> [i \in Ctx |-> 0]]
  /\ heap = <<>>
  /\ nullFrees = 0
  /\ held = [i \in Ctx |-> 0]
  /\ releases = 0
  /\ scan = [t \in Thread |-> Idle]
  /\ raced = FALSE

ResolveInit ==
  /\ DataWritten = [r \in Rec |-> FALSE]
  /\ recordlist = <<>>
  /\ merges = [r \in Rec |-> 0]
  /\ roots = {}
  /\ mutated = 0
  /\ last = NoOp

\* The record graph as it is recorded and resolved.
Init ==
  /\ live = {1}
  /\ Parents = [r \in Rec |-> {}]
  /\ SubResources = [r \in Rec |-> <<>>]
  /\ m_Chunks = [r \in Rec |-> {}]
  /\ ResolveInit
  /\ TablesInit

Next ==
  \/ Construct
  \/ \E r \in Rec, p \in Rec : AddParent(r, p)
  \/ \E r \in Rec, s \in Rec : AddSubResource(r, s)
  \/ \E r \in Rec, c \in ChunkId : AddChunk(r, c)
  \/ \E r \in Rec : Insert(r)

Spec == Init /\ [][Next]_vars

\* One record and its context-id table.
InitSlots ==
  /\ live = {This}
  /\ Parents = [r \in Rec |-> {}]
  /\ SubResources = [r \in Rec |-> <<>>]
  /\ m_Chunks = [r \in Rec |-> {}]
  /\ ResolveInit
  /\ TablesInit

NextSlots ==
  \/ GetContextID
  \/ \E ctx \in Ctx : FreeContextID(ctx)

SpecSlots == InitSlots /\ [][NextSlots]_vars

\* Every operation of one record, This; a second record is its parent, its
\* child or its subresource.
InitRecord ==
  /\ live = {1, 2}
  /\ Parents \in {[r \in Rec |-> {}],
                  [r \in Rec |-> IF r = 1 THEN {2} ELSE IF r = 2 THEN {1} ELSE {}]}
  /\ SubResources \in {[r \in Rec |-> <<>>],
                       [r \in Rec |-> IF r = 1 THEN <<2>> ELSE <<>>]}
  /\ m_Chunks = [r \in Rec |-> IF r \in {1, 2} /\ r \in ChunkId THEN {r} ELSE {}]
  /\ ResolveInit
  /\ TablesInit

NextRecord ==
  \/ \E r \in Rec : Insert(r)
  \/ \E ptr \in 0..MaxPtr : SetDataPtr(This, ptr)
  \/ NumHeld < MaxLive /\ GetContextID
  \/ \E ctx \in Ctx : FreeContextID(ctx)
  \/ \E ctx \in Ctx, size \in 1..MaxSize :
        (ctx = 0 \/ held[ctx] > 0) /\ AllocShadowStorage(This, ctx, size)
  \/ \E ctx \in Ctx : (ctx = 0 \/ held[ctx] > 0) /\ VerifyShadowStorage(This, ctx)
  \/ FreeShadowStorage(This)

SpecRecord == InitRecord /\ [][NextRecord]_vars

\* The shadow storage of two records over their lifetime: record 2 is a
\* subresource of record 1 or a record of its own.
SlotSample == {0, NumContexts - 1}
GuardSample == {1, MarkerLen}
GuardValues(i) == {0, markerValue[i]}

InitShadow ==
  /\ live = {1, 2}
  /\ Parents = [r \in Rec |-> {}]
  /\ SubResources \in {[r \in Rec |-> <<>>],
                       [r \in Rec |-> IF r = 1 THEN <<2>> ELSE <<>>]}
  /\ m_Chunks = [r \in Rec |-> IF r \in {1, 2} /\ r \in ChunkId THEN {r} ELSE {}]
  /\ ResolveInit
  /\ TablesInit

NextShadow ==
  \/ \E r \in Rec, ctx \in SlotSample, size \in 1..MaxSize : AllocShadowStorage(r, ctx, size)
  \/ \E r \in Rec, ctx \in SlotSample : VerifyShadowStorage(r, ctx)
  \/ \E r \in Rec : FreeShadowStorage(r)
  \/ \E p \in 1..(2 * MaxPairs), i \in GuardSample :
        \E v \in GuardValues(i) : WriteGuard(p, i, v)
  \/ \E r \in Rec : Destroy(r)

SpecShadow == InitShadow /\ [][NextShadow]_vars

\* The context-id table of one record used by threads that take no lock.
NextRace ==
  \/ \E t \in Thread : CallGetContextID(t)
  \/ \E t \in Thread : TestContext(t)
  \/ \E t \in Thread : SetContext(t)
  \/ \E ctx \in Ctx : FreeContextID(ctx)

SpecRace == InitSlots /\ [][NextRace]_vars

\* ------------------------------------------------- the graph, as a relation
Range(f) == {f[i] : i \in DOMAIN f}

\* the records Insert may call from x: its parents and its subresources
Succ(x) == Parents[x] \cup Range(SubResources[x])

RECURSIVE Closure(_, _)
Closure(S, n) ==
  IF n = 0 THEN S ELSE Closure(S \cup UNION {Succ(x) : x \in S}, n - 1)

\* the records reachable from the records S through parent edges and
\* subresource ownership, S included
Reach(S) == Closure(S, NumRecords)

RECURSIVE ParentClosure(_, _)
ParentClosure(S, n) ==
  IF n = 0 THEN S ELSE ParentClosure(S \cup UNION {Parents[x] : x \in S}, n - 1)

\* x lies on a cycle of parent edges
OnCycle(x) == x \in ParentClosure(Parents[x], NumRecords)
Acyclic == \A x \in Rec : ~OnCycle(x)

NoDup(list) == \A i, j \in 1..Len(list) : i # j => list[i] # list[j]
Ascending(list) == \A i, j \in 1..Len(list) : i < j => list[i] < list[j]
Pos(list, k) == CHOOSE i \in 1..Len(list) : list[i] = k
ChunksOf(S) == UNION {m_Chunks[x] : x \in S}

\* ---------------------------------------------------------------- claims

\* C1: on an acyclic parent graph, Insert on R straight after Insert on R
\* leaves the collection as the first call left it, and after either call no
\* chunk id occurs twice in the collection.
C1_Idempotent ==
  [][(last'.op = "Insert" /\ Acyclic) =>
       /\ NoDup(recordlist')
       /\ (last.op = "Insert" /\ last.r = last'.r) => recordlist' = recordlist]_vars

\* C1 witness: a record with a parent was resolved twice in a row, and the
\* collection holds the chunks of both.
C1_Witness ==
  /\ last.op = "Insert" /\ last.again /\ Acyclic
  /\ \E p \in Parents[last.r] :
        /\ p # last.r
        /\ m_Chunks[p] # {} /\ m_Chunks[last.r] # {}
        /\ m_Chunks[p] \cup m_Chunks[last.r] = Range(recordlist)

\* C2 as claimed: after Insert on R, R and every record reachable from R is
\* committed, whatever came before.
C2_AllReachableCommitted ==
  last.op = "Insert" => \A x \in Reach({last.r}) : DataWritten[x]

\* C2 amended: after Insert on R, R is committed; every record reachable from R
\* is committed provided that, when the call began, every committed record had
\* only committed parents and subresources.
C2_ReachableCommittedIfClosed ==
  last.op = "Insert" =>
    /\ DataWritten[last.r]
    /\ last.closed0 => \A x \in Reach({last.r}) : DataWritten[x]

\* C2 witness: after an earlier Insert on another record, an Insert reached
\* three records, one of them uncommitted until then.
C2_Witness ==
  /\ last.op = "Insert" /\ last.closed0
  /\ Cardinality(roots) >= 2
  /\ Cardinality(Reach({last.r})) >= 3
  /\ \E x \in Reach({last.r}) : x # last.r /\ ~last.dw0[x] /\ DataWritten[x]

\* C3: with the graph and the chunks as they were at the first Insert, the
\* collection holds exactly the chunk ids of the records reachable from the
\* records resolved so far, and it is the ascending list of them: it depends on
\* the set of roots alone, not on the order of the calls.
C3_UnionOfReachable ==
  mutated = 0 =>
    /\ Range(recordlist) = ChunksOf(Reach(roots))
    /\ Len(recordlist) = Cardinality(ChunksOf(Reach(roots)))
    /\ Ascending(recordlist)

\* C3 witness: two roots that share an ancestor holding a chunk were resolved.
C3_Witness ==
  /\ mutated = 0
  /\ \E r1, r2 \in roots : \E a \in Rec :
        /\ r1 # r2 /\ a \notin {r1, r2}
        /\ a \in Reach({r1}) \cap Reach({r2})
        /\ m_Chunks[a] # {}
        /\ m_Chunks[r1] \cup m_Chunks[r2] # m_Chunks[a]
  /\ Len(recordlist) >= 2

\* C4 as claimed: for a merged record R and a merged parent P of R, each chunk
\* of P in the collection comes before each other chunk of R in it (stated for
\* acyclic parent graphs, where the claim does not contradict itself).
C4_ParentsFirst ==
  Acyclic =>
    \A r \in Rec : \A q \in Parents[r] :
      (merges[r] > 0 /\ merges[q] > 0) =>
        \A cq \in m_Chunks[q] \cap Range(recordlist) :
          \A cr \in (m_Chunks[r] \cap Range(recordlist)) \ {cq} :
            Pos(recordlist, cq) < Pos(recordlist, cr)

\* C4 amended: the collection iterates in ascending chunk id, whatever the
\* parent edges are.
C4_AscendingIds == Ascending(recordlist)

\* C4 witness: a merged parent's chunk follows its merged child's chunk.
C4_Witness ==
  \E r \in Rec : \E q \in Parents[r] \ {r} :
    /\ merges[r] > 0 /\ merges[q] > 0
    /\ \E cq \in m_Chunks[q] \ m_Chunks[r] : \E cr \in m_Chunks[r] \ m_Chunks[q] :
          /\ {cq, cr} \subseteq Range(recordlist)
          /\ Pos(recordlist, cr) < Pos(recordlist, cq)

\* C5: Insert never enters a parent whose latch is set and never merges the
\* chunks of a record whose latch was set when the call began; called on an
\* uncommitted R it merges R's chunks and those of every uncommitted parent,
\* and the collection gains the chunks of the merged records and nothing else.
C5_CommittedParentSkipped ==
  [][last'.op = "Insert" =>
       LET R == last'.r
           merged == {x \in Rec : merges'[x] > merges[x]}
       IN /\ ~last'.lateParent
          /\ \A x \in Rec : DataWritten[x] => x \notin merged
          /\ ~DataWritten[R] =>
               \A x \in {R} \cup {q \in Parents[R] : ~DataWritten[q]} :
                  /\ merges'[x] = merges[x] + 1
                  /\ m_Chunks[x] \subseteq Range(recordlist')
          /\ Range(recordlist') = Range(recordlist) \cup ChunksOf(merged)]_vars

\* C5 witness: R was uncommitted, its parent P1 committed and its parent P2
\* not; P2's chunk is in the collection and P1's is not.
C5_Witness ==
  /\ last.op = "Insert" /\ ~last.dw0[last.r]
  /\ \E p1, p2 \in Parents[last.r] :
        /\ last.dw0[p1] /\ ~last.dw0[p2]
        /\ m_Chunks[p1] # {} /\ m_Chunks[p1] \cap Range(recordlist) = {}
        /\ m_Chunks[p2] # {} /\ m_Chunks[p2] \subseteq Range(recordlist)
        /\ merges[p2] = 1

\* C6: no operation of the record takes DataWritten from true to false, and
\* a record's own chunks are merged at most once.
C6_LatchMonotonic ==
  /\ [][\A r \in Rec : DataWritten[r] => DataWritten'[r]]_vars
  /\ [](\A r \in Rec : merges[r] <= 1)

\* C6 witness: the record is committed and merged once, and since its
\* construction ids were given and released, its data pointer was set, and
\* shadow buffers were allocated and freed.
C6_Witness ==
  /\ DataWritten[This] /\ merges[This] = 1
  /\ last.op = "FreeShadowStorage"
  /\ Len(heap) > 0 /\ heap[1].frees = 1
  /\ releases > 0
  /\ DataPtr[This] # 0

\* C7 as claimed: Insert returns, every parent-edge entry finds the latch
\* false, the recursive calls are bounded by the size of the graph, and every
\* record on a cycle reachable from R has its chunks merged exactly once.
C7_CycleMergedOnce ==
  last.op = "Insert" =>
    /\ ~last.overflow
    /\ ~last.lateParent
    /\ last.calls - 1 <= NumEdges + NumSubEntries
    /\ last.calls - 1 <= Cardinality(live) + NumSubEntries
    /\ \A x \in Reach({last.r}) : OnCycle(x) => merges[x] = 1

\* C7 amended: as claimed, but a record on a cycle reachable from R has its
\* chunks merged at most once, and exactly once when at the start of the call
\* every committed record had only committed parents and subresources.
C7_TerminatesOnCycles ==
  last.op = "Insert" =>
    /\ ~last.overflow
    /\ ~last.lateParent
    /\ last.calls - 1 <= NumEdges + NumSubEntries
    /\ last.calls - 1 <= Cardinality(live) + NumSubEntries
    /\ last.depth <= last.calls
    /\ \A x \in Rec : merges[x] <= 1
    /\ last.closed0 => \A x \in Reach({last.r}) : OnCycle(x) => merges[x] = 1

\* C7 witness: Insert ran on a record of a two-record cycle and merged the
\* chunks of both records.
C7_Witness ==
  /\ last.op = "Insert" /\ OnCycle(last.r) /\ ~last.dw0[last.r]
  /\ last.calls = 2
  /\ \E q \in Parents[last.r] :
        /\ q # last.r /\ last.r \in Parents[q]
        /\ merges[q] = 1 /\ merges[last.r] = 1
        /\ m_Chunks[q] # {} /\ m_Chunks[last.r] # {}
        /\ m_Chunks[q] \cup m_Chunks[last.r] = Range(recordlist)


\* ------------------------------------------------ claims: context ids
Alloc == 1..(NumContexts - 1)        \* the slots GetContextID hands out
HeldTotal == held[0] + Cardinality({i \in Alloc : held[i] > 0})
FreeSlots(ctxs) == {i \in Alloc : ~ctxs[i]}

\* C8: with no FreeContextID so far, the first k <= 31 calls of GetContextID
\* returned k different ids, all in 1..31; from the 32nd call on the answer is
\* 0. GetContextID only ever returns a value in 0..31.
C8_DistinctThenZero ==
  /\ last.op = "GetContextID" => last.ret \in 0..(NumContexts - 1)
  /\ releases = 0 =>
       /\ \A i \in Alloc : held[i] <= 1
       /\ held[0] > 0 => \A i \in Alloc : held[i] = 1
       /\ (last.op = "GetContextID" /\ HeldTotal <= NumContexts - 1) => last.ret \in Alloc
       /\ (last.op = "GetContextID" /\ HeldTotal >= NumContexts) => last.ret = 0

\* C8 witness: the 32nd call in a row has returned 0.
C8_Witness ==
  /\ releases = 0 /\ last.op = "GetContextID" /\ last.ret = 0
  /\ held[0] = 1 /\ \A i \in Alloc : held[i] = 1

\* C9 as claimed: no two live contexts hold the same id; the immediate context
\* holds id 0, so no caller of GetContextID holds 0.
C9_NoSharedSlot ==
  /\ held[0] = 0
  /\ \A i \in Alloc : held[i] <= 1

\* C10: GetContextID returns the lowest free slot of 1..31, when there is one,
\* and marks that slot and no other; FreeContextID(id) leaves slot id free; and
\* the GetContextID that follows FreeContextID(id), id in 1..31, returns id
\* exactly when the slots 1..id-1 are all in use.
C10_LowestFree ==
  [][/\ (last'.op = "GetContextID" /\ FreeSlots(contexts) # {}) =>
          /\ last'.ret = Min(FreeSlots(contexts))
          /\ contexts' = [contexts EXCEPT ![Min(FreeSlots(contexts))] = TRUE]
     /\ last'.op = "FreeContextID" =>
          /\ ~contexts'[last'.arg]
          /\ \A i \in Ctx \ {last'.arg} : contexts'[i] = contexts[i]
     /\ (last'.op = "GetContextID" /\ last.op = "FreeContextID" /\ last.arg \in Alloc) =>
          (last'.ret = last.arg <=> \A j \in 1..(last.arg - 1) : contexts[j])]_vars

\* C10 witness: slot id > 1 was released while the slots below it were in use,
\* and the next GetContextID gave id out again.
C10_Witness ==
  /\ last.op = "GetContextID" /\ last.arg = last.ret /\ last.ret > 1
  /\ \A j \in 1..last.ret : contexts[j]

\* C11: when the slots 1..31 are all in use GetContextID returns 0 and leaves
\* the table as it was; no GetContextID ever sets contexts[0]; and when the
\* slots 1..31 were all in use and FreeContextID(i), i in 1..31, released one,
\* the next GetContextID returns i.
C11_ExhaustionAndRecovery ==
  /\ [][/\ (last'.op = "GetContextID" /\ FreeSlots(contexts) = {}) =>
             (last'.ret = 0 /\ contexts' = contexts)
        /\ last'.op = "GetContextID" => contexts'[0] = contexts[0]
        /\ (last'.op = "GetContextID" /\ last.op = "FreeContextID"
               /\ last.arg \in Alloc /\ FreeSlots(contexts) = {last.arg}) =>
             (last'.ret = last.arg /\ last'.ret # 0)]_vars
  /\ [](~contexts[0])

\* C11 witness: the pool was exhausted (a caller holds 0), one slot was
\* released, and the GetContextID after it returned that slot.
C11_Witness ==
  /\ last.op = "GetContextID" /\ last.arg = last.ret /\ last.ret \in Alloc
  /\ held[0] > 0
  /\ FreeSlots(contexts) = {}

\* ------------------------------------------------ claims: shadow storage
Slots(r) == {i \in Ctx : ShadowPtr[r][i][1] # 0}      \* the allocated slots of r
Intact(p) == heap[p].guard = markerValue

\* C12: in every state and for every slot, ShadowPtr[i][0] and ShadowPtr[i][1]
\* are both NULL or both point to a buffer that was not freed; and
\* AllocShadowStorage on a slot that holds buffers leaves the pointers, the
\* recorded sizes and the buffers (their guards included) as they were,
\* whatever size is asked for.
C12_PairedBuffers ==
  /\ [](\A r \in Rec : \A i \in Ctx :
          /\ ShadowPtr[r][i][1] = 0 <=> ShadowPtr[r][i][2] = 0
          /\ \A j \in {1, 2} : ShadowPtr[r][i][j] # 0 =>
                /\ ShadowPtr[r][i][j] \in 1..Len(heap)
                /\ heap[ShadowPtr[r][i][j]].frees = 0
                /\ heap[ShadowPtr[r][i][j]].len = ShadowSize[r][i] + MarkerLen)
  /\ [][(last'.op = "AllocShadowStorage" /\ last'.arg \in Slots(last'.r)) =>
          (ShadowPtr' = ShadowPtr /\ ShadowSize' = ShadowSize /\ heap' = heap)]_vars

\* C12 witness: AllocShadowStorage was called with another size on a slot that
\* held buffers, after buffers were freed and a record was destroyed; the
\* recorded size is the old one.
C12_Witness ==
  /\ last.op = "AllocShadowStorage" /\ ~last.fresh
  /\ last.arg \in Slots(last.r)
  /\ last.ret # ShadowSize[last.r][last.arg]
  /\ live # {1, 2}
  /\ \E p \in 1..Len(heap) : heap[p].frees = 1

\* the guard of a buffer of slot c of record r differs from markerValue
GuardBroken(r, c) == \E j \in {1, 2} : ~Intact(ShadowPtr[r][c][j])

\* C13 as claimed: VerifyShadowStorage(ctx) returns false exactly when the slot
\* is allocated and a guard differs from markerValue, changes nothing, returns
\* false after a write that left a guard byte different from markerValue, and
\* returns true right after any AllocShadowStorage(ctx, size).
C13_TrueAfterAlloc ==
  [][last'.op = "VerifyShadowStorage" =>
       LET r == last'.r
           c == last'.arg
       IN /\ last'.ret = 0 <=> (c \in Slots(r) /\ GuardBroken(r, c))
          /\ UNCHANGED <<graphVars, resolveVars, mutated, DataPtr, slotVars, shadowVars>>
          /\ (last.op = "AllocShadowStorage" /\ last.r = r /\ last.arg = c) =>
               last'.ret = 1]_vars

\* C13 amended: as claimed, but VerifyShadowStorage returns true right after an
\* AllocShadowStorage(ctx, size) that found the slot empty; after one that
\* found buffers in the slot it answers for those buffers.
C13_VerifyGuards ==
  [][last'.op = "VerifyShadowStorage" =>
       LET r == last'.r
           c == last'.arg
       IN /\ last'.ret \in {0, 1}
          /\ last'.ret = 0 <=> (c \in Slots(r) /\ GuardBroken(r, c))
          /\ c \notin Slots(r) => last'.ret = 1
          /\ UNCHANGED <<graphVars, resolveVars, mutated, DataPtr, slotVars, shadowVars>>
          /\ (last.op = "AllocShadowStorage" /\ last.r = r /\ last.arg = c /\ last.fresh) =>
               last'.ret = 1
          /\ (last.op = "AllocShadowStorage" /\ last.r = r /\ last.arg = c /\ ~last.fresh) =>
               (last'.ret = 0 <=> GuardBroken(r, c))
          /\ (last.op = "WriteGuard" /\ c \in Slots(r)
                /\ last.arg \in {ShadowPtr[r][c][1], ShadowPtr[r][c][2]}
                /\ heap[last.arg].guard[last.ret] # markerValue[last.ret]) =>
               last'.ret = 0]_vars

\* C13 witness: one guard byte of the second buffer of a slot was overwritten,
\* the first buffer is intact, and VerifyShadowStorage returned false.
C13_Witness ==
  /\ last.op = "VerifyShadowStorage" /\ last.ret = 0
  /\ last.arg \in Slots(last.r)
  /\ Intact(ShadowPtr[last.r][last.arg][1])
  /\ \E i \in GuardSample :
        heap[ShadowPtr[last.r][last.arg][2]].guard =
          [markerValue EXCEPT ![i] = 0]

\* the buffers handed out to record r
BuffersOf(r) == {p \in 1..Len(heap) : heap[p].owner = r}
\* the pointers in the shadow table of record r
Held(r) == {ShadowPtr[r][i][j] : i \in Ctx, j \in {1, 2}} \ {0}

\* C14: FreeShadowStorage, called directly or by the destructor and however
\* often, leaves all 32 slots NULL; Serialiser::FreeAlignedBuffer never gets
\* NULL and never gets a buffer twice; a buffer that was not freed is still in
\* its live owner's table, and after FreeShadowStorage or destruction every
\* buffer of the record was freed once; and AllocShadowStorage after
\* FreeShadowStorage allocates two new buffers of the size now asked for.
C14_FreedExactlyOnce ==
  /\ [](/\ nullFrees = 0
        /\ \A p \in 1..Len(heap) :
              /\ heap[p].frees <= 1
              /\ heap[p].frees = 0 <=>
                    (heap[p].owner \in live /\ p \in Held(heap[p].owner)))
  /\ [][/\ last'.op \in {"FreeShadowStorage", "Destroy"} =>
             /\ \A i \in Ctx : ShadowPtr'[last'.r][i] = <<0, 0>>
             /\ \A p \in BuffersOf(last'.r) : heap'[p].frees = 1
        /\ (last'.op = "AllocShadowStorage" /\ last.op = "FreeShadowStorage"
               /\ last.r = last'.r) =>
             LET r == last'.r
                 c == last'.arg
             IN /\ ShadowPtr'[r][c] = <<Len(heap) + 1, Len(heap) + 2>>
                /\ ShadowSize'[r][c] = last'.ret
                /\ \A p \in {Len(heap) + 1, Len(heap) + 2} :
                      /\ heap'[p].frees = 0
                      /\ heap'[p].len = last'.ret + MarkerLen
                      /\ heap'[p].guard = markerValue]_vars

\* C14 witness: one slot of a record was allocated, freed, allocated again
\* with another size and freed, and then the record was destroyed: four
\* buffers, each freed once.
C14_Witness ==
  /\ last.op = "Destroy" /\ last.again
  /\ Len(heap) = 4
  /\ \A p \in 1..Len(heap) : heap[p].owner = last.r /\ heap[p].frees = 1
  /\ Cardinality({i \in Ctx : ShadowSize[last.r][i] # 0}) = 1
  /\ heap[1].len # heap[3].len

\* C15: the destructor of a record destroys every subresource the record
\* owns, with the chunks of the subresource released, and runs
\* FreeShadowStorage: after it neither the record nor a subresource of it is
\* live, no subresource holds a chunk, and every shadow buffer of the record
\* and of its subresources was freed, once.
C15_DestroyReleasesAll ==
  [][last'.op = "Destroy" =>
       LET D == Destroyed(last'.r, NumRecords)
       IN /\ live' \cap D = {}
          /\ \A x \in D \ {last'.r} : m_Chunks'[x] = {}
          /\ \A x \in D : /\ SubResources'[x] = <<>>
                         /\ \A i \in Ctx : ShadowPtr'[x][i] = <<0, 0>>
          /\ \A p \in 1..Len(heap) : heap[p].owner \in D => heap'[p].frees = 1
          /\ \A p \in 1..Len(heap) : heap[p].owner \notin D => heap'[p] = heap[p]
          /\ nullFrees' = 0]_vars

\* C15 witness: a record with a subresource was destroyed while both held
\* shadow buffers and the subresource held a chunk.
C15_Witness ==
  /\ last.op = "Destroy" /\ last.r = 1 /\ ~last.again
  /\ live = {}
  /\ m_Chunks[2] = {}
  /\ \E p, q \in 1..Len(heap) :
        /\ heap[p].owner = 1 /\ heap[q].owner = 2
        /\ heap[p].frees = 1 /\ heap[q].frees = 1

\* ------------------------------------------------ claims: unlocked calls
\* C16: as long as no two GetContextID calls overlapped, no id of 1..31 is
\* held by two callers at once. (When two calls overlap between the read of
\* a flag and its assignment both can return the same id: the witness.)
C16_SerialisedUnique ==
  ~raced => \A i \in Alloc : held[i] <= 1

\* C16 witness: two calls overlapped, both have returned, and both hold the
\* same id of 1..31.
C16_Witness ==
  /\ raced
  /\ \A t \in Thread : scan[t].pc = "idle"
  /\ \E i \in Alloc : held[i] = 2 /\ contexts[i]
  /\ last.op = "GetContextID" /\ last.ret \in Alloc /\ held[last.ret] = 2

\* ------------------------------------------------ claims: frame conditions
\* C17: FreeContextID(id) clears contexts[id] and changes nothing else: no
\* other flag, no shadow pointer, recorded size or buffer. So the
\* AllocShadowStorage(id, size) of the caller that id was given to next finds
\* the buffers of the caller before it and changes nothing, whatever size is.
C17_ReleaseKeepsShadow ==
  [][/\ last'.op = "FreeContextID" =>
          /\ ~contexts'[last'.arg]
          /\ \A i \in Ctx \ {last'.arg} : contexts'[i] = contexts[i]
          /\ ShadowPtr' = ShadowPtr /\ ShadowSize' = ShadowSize
          /\ heap' = heap /\ nullFrees' = nullFrees
     /\ (last'.op = "AllocShadowStorage" /\ last'.again /\ last'.arg \in Slots(last'.r)) =>
          /\ ~last'.fresh
          /\ ShadowPtr' = ShadowPtr /\ ShadowSize' = ShadowSize /\ heap' = heap]_vars

\* C17 witness: a slot of 1..31 with buffers was released and given out again,
\* and its new holder asked for a larger size than the recorded one: the
\* buffers and the recorded size are the old ones.
C17_Witness ==
  /\ last.op = "AllocShadowStorage" /\ last.again /\ ~last.fresh
  /\ last.arg \in Alloc /\ last.arg \in Slots(last.r)
  /\ last.ret > ShadowSize[last.r][last.arg]
  /\ heap[ShadowPtr[last.r][last.arg][1]].len = ShadowSize[last.r][last.arg] + MarkerLen

\* C18: AllocShadowStorage(ctx, size) and VerifyShadowStorage(ctx) change no
\* other slot's pointers, recorded size or buffers, nor contexts[], DataWritten,
\* the chunks of a record or the collection; FreeShadowStorage sets the
\* pointers of all 32 slots to NULL and leaves contexts[], DataWritten and the
\* chunks alone.
C18_ShadowFrame ==
  [][/\ last'.op \in {"AllocShadowStorage", "VerifyShadowStorage"} =>
          /\ \A r \in Rec : \A i \in Ctx :
                (r # last'.r \/ i # last'.arg) =>
                   (ShadowPtr'[r][i] = ShadowPtr[r][i] /\ ShadowSize'[r][i] = ShadowSize[r][i])
          /\ \A p \in 1..Len(heap) : heap'[p] = heap[p]
     /\ last'.op = "VerifyShadowStorage" => UNCHANGED shadowVars
     /\ last'.op = "FreeShadowStorage" =>
          /\ \A i \in Ctx : ShadowPtr'[last'.r][i] = <<0, 0>>
          /\ \A i \in Slots(last'.r) : \A j \in {1, 2} :
                heap'[ShadowPtr[last'.r][i][j]].frees = 1
     /\ last'.op \in {"AllocShadowStorage", "VerifyShadowStorage", "FreeShadowStorage"} =>
          UNCHANGED <<contexts, DataWritten, m_Chunks, recordlist, Parents,
                      SubResources, DataPtr>>]_vars

\* C18 witness: on a committed record with an id given out, FreeShadowStorage
\* emptied two allocated slots, slot 0 and the slot of that id.
C18_Witness ==
  /\ last.op = "FreeShadowStorage" /\ last.ret = 2
  /\ \E c \in Alloc : contexts[c] /\ ShadowSize[last.r][c] # 0
  /\ ShadowSize[last.r][0] # 0
  /\ Slots(last.r) = {}
  /\ DataWritten[last.r] /\ recordlist # <<>>

\* ------------------------------------------------ claims: late additions
RECURSIVE NumSubsOf(_)
\* the subresource entries of the records of S
NumSubsOf(S) ==
  IF S = {} THEN 0
  ELSE LET x == Min(S) IN Len(SubResources[x]) + NumSubsOf(S \ {x})

\* C19: an Insert adds to the collection only chunks of records whose latch
\* was not set when the call began, so a chunk added to a record after its
\* latch was set is merged by no later call, through whatever record the call
\* comes; the loop over SubResources runs for the records merged by the call
\* and for no other, so not for a record that was committed; and an Insert on
\* a committed record still enters each parent that is not committed, sets its
\* latch and merges its chunks.
C19_LateChunksNeverMerged ==
  [][last'.op = "Insert" =>
       LET R == last'.r
           merged == {x \in Rec : merges'[x] > merges[x]}
       IN /\ \A x \in Rec : DataWritten[x] => merges'[x] = merges[x]
          /\ Range(recordlist') \ Range(recordlist)
                \subseteq ChunksOf({x \in Rec : ~DataWritten[x]})
          /\ last'.subs = NumSubsOf(merged)
          /\ DataWritten[R] =>
               /\ R \notin merged
               /\ \A q \in Parents[R] : ~DataWritten[q] =>
                     /\ DataWritten'[q]
                     /\ merges'[q] = merges[q] + 1
                     /\ m_Chunks[q] \subseteq Range(recordlist')]_vars

\* C19 witness: a chunk was added to a committed record, and an Insert on an
\* uncommitted child of that record has run: the chunk is not in the
\* collection, the child's chunk is.
C19_Witness ==
  /\ last.op = "Insert" /\ ~last.dw0[last.r]
  /\ \E x \in Parents[last.r] : \E c \in m_Chunks[x] :
        /\ last.dw0[x] /\ merges[x] = 1
        /\ c \notin Range(recordlist)
  /\ m_Chunks[last.r] # {} /\ m_Chunks[last.r] \subseteq Range(recordlist)

====
